---- MODULE Spec2Model ----
(***************************************************************************)
(* A model of the MCP client (client_open_ai.ts), its line-delimited       *)
(* JSON-RPC transport and the coffee-shop server (server/src/index copy.ts)*)
(* it talks to.                                                            *)
(*                                                                         *)
(* The client is one thread of control; every await of the source is a     *)
(* suspension point and becomes a value of pc.  A line written by one side *)
(* travels in a FIFO pipe (toServer, toClient) until the other side reads  *)
(* it.                                                                     *)
(***************************************************************************)
EXTENDS Integers, Sequences, FiniteSets, TLC

VARIABLES
    pc,                     \* the client's position (the await it is suspended at)
    lastId,                 \* send's id counter
    serverInfo,             \* initialize result, destructured
    capabilities,
    tools,                  \* tool catalog
    resources,              \* resource catalog
    toServer,               \* lines written to the server's stdin, unread
    toClient,               \* lines written to the server's stdout, unread
    pending,                \* the request the suspended send() wrote
    messages,               \* per question: the conversation
    toolCallHistory,
    toolCallRepeatCount,
    lastToolCallSignature,
    finalAnswerGiven,
    promptResult,           \* last value returned by callAIWithTools
    results,                \* tool calls of the current turn
    callIdx,                \* position of the for-loop over results
    peer,                   \* which process is spawned: this repository's server or a stub
    nActions,               \* menu selections made
    sent,                   \* history: the lines the client wrote before the menu, in order
    recv,                   \* history: what the last send() read, against the request it wrote
    qlog                    \* history of the current question

vars == <<pc, lastId, serverInfo, capabilities, tools, resources, toServer, toClient,
          pending, messages, toolCallHistory, toolCallRepeatCount,
          lastToolCallSignature, finalAnswerGiven, promptResult, results, callIdx,
          peer, nActions, sent, recv, qlog>>

(***************************************************************************)
(* Bounds of the model.                                                    *)
(***************************************************************************)
MaxActions == 2         \* menu selections in one session
MaxTurns == 4           \* completion requests in one question
MaxLines == 3           \* lines fed to the server on its own

(***************************************************************************)
(* JSON values.  An absent (undefined) property is None, a present one is  *)
(* Some(v).                                                                *)
(***************************************************************************)
None == <<>>
Some(x) == <<x>>
IsSome(o) == o # None
Get(o) == o[1]

\* The values a tools/call "arguments" property takes: nothing, a JSON string,
\* or an object with at most the key "name".
JUndefined == [t |-> "undefined", s |-> "", name |-> None]
JString(str) == [t |-> "string", s |-> str, name |-> None]
JObject(nameOpt) == [t |-> "object", s |-> "", name |-> nameOpt]

\* args.name as JavaScript evaluates it; None is undefined.  Reading a property
\* of undefined throws, which the callers test with t = "undefined".
PropName(args) == IF args.t = "object" THEN args.name ELSE None

(***************************************************************************)
(* The server: src/server/src/index copy.ts                                *)
(***************************************************************************)
ServerInfo == [name |-> "Coffee Shop Server", version |-> "1.0.0"]

drinks ==
    << [name |-> "Latte", price |-> 5,
        description |-> "A latte is a coffee drink made with espresso and steamed milk."],
       [name |-> "Mocha", price |-> 6,
        description |-> "A mocha is a coffee drink made with espresso and chocolate."],
       [name |-> "Flat White", price |-> 7,
        description |-> "A flat white is a coffee drink made with espresso and steamed milk."] >>

\* JSON.stringify of a drink record.
StringifyDrink(d) ==
    "{\"name\":\"" \o d.name \o "\",\"price\":" \o ToString(d.price)
        \o ",\"description\":\"" \o d.description \o "\"}"

\* JSON.stringify(drinks)
StringifyDrinks ==
    "[" \o StringifyDrink(drinks[1]) \o "," \o StringifyDrink(drinks[2]) \o ","
        \o StringifyDrink(drinks[3]) \o "]"

\* JSON.stringify({ names: drinks.map((drink) => drink.name) })
StringifyNames ==
    "{\"names\":[\"" \o drinks[1].name \o "\",\"" \o drinks[2].name \o "\",\""
        \o drinks[3].name \o "\"]}"

StringifyNotFound == "{\"error\":\"Drink not found\"}"

\* The strings a user or a model gives as a drink name, with what normalize
\* makes of each: lower case, every non-alphanumeric character removed.
\* undefined (None) normalizes to "".
NameInputs == {"Latte", "flat white", "Tea"}
normalize(strOpt) ==
    IF strOpt = None THEN ""
    ELSE CASE Get(strOpt) = "Latte" -> "latte"
           [] Get(strOpt) = "Mocha" -> "mocha"
           [] Get(strOpt) = "Flat White" -> "flatwhite"
           [] Get(strOpt) = "flat white" -> "flatwhite"
           [] Get(strOpt) = "Tea" -> "tea"
           [] OTHER -> Get(strOpt)

\* String(x) as console.log prints an argument.
Show(strOpt) == IF strOpt = None THEN "undefined" ELSE Get(strOpt)

\* A result object: every property the client reads, absent unless set.
EmptyResult ==
    [serverInfo |-> None, capabilities |-> None, tools |-> None, resources |-> None,
     content |-> None, contents |-> None, error |-> None]

\* One line on the server's stdout.  kind "json": a JSON document with the
\* properties id, result, error (each absent when None); kind "text": a line
\* that is not JSON.
JsonLine(idOpt, resultOpt, errorOpt) ==
    [kind |-> "json", text |-> "", id |-> idOpt, result |-> resultOpt, error |-> errorOpt]
TextLine(str) ==
    [kind |-> "text", text |-> str, id |-> None, result |-> None, error |-> None]

\* sendResponse(id, result): console.log(JSON.stringify({result, jsonrpc, id}))
sendResponse(idOpt, result) == JsonLine(idOpt, Some(result), None)

\* console.log(...) of the server: one more line on its stdout.
ConsoleLog(str) == TextLine(str)

Properties_getDrinkNames == <<>>
Properties_getDrinkInfo == << [key |-> "name", type |-> "string"] >>

ServerTools ==
    << [name |-> "getDrinkNames",
        description |-> "Get the names of the drinks in the shop",
        inputSchema |-> [type |-> "object", properties |-> Properties_getDrinkNames,
                         required |-> None]],
       [name |-> "getDrinkInfo",
        description |-> "Get more info about the drink",
        inputSchema |-> [type |-> "object", properties |-> Properties_getDrinkInfo,
                         required |-> Some(<<"name">>)]] >>

ServerResources == << [uri |-> "menu://app", name |-> "menu"] >>

TextContent(str) == << [type |-> "text", text |-> str] >>

\* tools[0].execute: what it writes to stdout and what it returns.
ExecuteGetDrinkNames(args) ==
    [threw |-> FALSE, out |-> <<>>,
     result |-> [EmptyResult EXCEPT !.content = Some(TextContent(StringifyNames))]]

FindDrink(inputName) ==
    LET hits == {i \in 1..Len(drinks) : normalize(Some(drinks[i].name)) = inputName}
    IN IF hits = {} THEN None
       ELSE Some(drinks[CHOOSE i \in hits : \A j \in hits : i <= j])

\* The console.log calls of getDrinkInfo's execute, in order.
DrinkInfoLog(args) ==
    << ConsoleLog("Raw input: " \o Show(PropName(args))),
       ConsoleLog("Normalized input: " \o normalize(PropName(args))) >>
    \o [i \in 1..Len(drinks) |->
          ConsoleLog("Raw drink name: " \o drinks[i].name \o " Normalized: "
                       \o normalize(Some(drinks[i].name)))]

\* tools[1].execute.  args.name of undefined throws before anything is logged.
ExecuteGetDrinkInfo(args) ==
    IF args.t = "undefined"
    THEN [threw |-> TRUE, out |-> <<>>, result |-> EmptyResult]
    ELSE LET drink == FindDrink(normalize(PropName(args)))
             content == IF IsSome(drink) THEN StringifyDrink(Get(drink))
                        ELSE StringifyNotFound
         IN [threw |-> FALSE, out |-> DrinkInfoLog(args),
             result |-> [EmptyResult EXCEPT !.content = Some(TextContent(content))]]

ToolNotFound(name) ==
    [code |-> -32602, message |-> "MCP error -32602: Tool " \o name \o " not found"]

InitializeResult ==
    [EmptyResult EXCEPT !.capabilities = Some([tools |-> TRUE, resources |-> TRUE]),
                        !.serverInfo = Some(ServerInfo)]

\* Mutant: the catalog is listed last tool first.
ToolsListReversed ==
    [EmptyResult EXCEPT
        !.tools = Some([i \in 1..Len(ServerTools) |->
                           ServerTools[Len(ServerTools) + 1 - i]])]

ToolsListResult == [EmptyResult EXCEPT !.tools = Some(ServerTools)]
ResourcesListResult == [EmptyResult EXCEPT !.resources = Some(ServerResources)]
ResourceGet ==
    [EmptyResult EXCEPT
        !.contents = Some(<< [uri |-> "menu://app", text |-> StringifyDrinks] >>)]

\* The tools/call branch of the request loop.
HandleToolsCall(json) ==
    IF json.params.name = Some("getDrinkNames")
    THEN LET r == ExecuteGetDrinkNames(json.params.arguments)
         IN r.out \o <<sendResponse(json.id, r.result)>>
    ELSE IF json.params.name = Some("getDrinkInfo")
    THEN LET r == ExecuteGetDrinkInfo(json.params.arguments)
         IN IF r.threw THEN r.out      \* caught by the loop's try/catch: no response
            ELSE r.out \o <<sendResponse(json.id, r.result)>>
    ELSE <<sendResponse(json.id,
             [EmptyResult EXCEPT !.error = Some(ToolNotFound(Show(json.params.name)))])>>

HandleResourcesRead(json) ==
    IF json.params.uri = Some("menu://app")
    THEN <<sendResponse(json.id, ResourceGet)>>
    ELSE <<sendResponse(json.id,
             [EmptyResult EXCEPT
                !.error = Some([code |-> -32602, message |-> "Resource not found"])])>>

\* One iteration of the server's request loop: every line it writes to stdout
\* for the request line json, in order.
ServerOutput(json) ==
    (IF json.jsonrpc = "2.0" /\ json.method = "initialize"
        THEN <<sendResponse(json.id, InitializeResult)>> ELSE <<>>)
    \o (IF json.method = "tools/list"
        THEN <<sendResponse(json.id, ToolsListResult)>> ELSE <<>>)
    \o (IF json.method = "tools/call" THEN HandleToolsCall(json) ELSE <<>>)
    \o (IF json.method = "resources/list"
        THEN <<sendResponse(json.id, ResourcesListResult)>> ELSE <<>>)
    \o (IF json.method = "resources/read" THEN HandleResourcesRead(json) ELSE <<>>)
    \o (IF json.method = "ping"
        THEN <<sendResponse(json.id, EmptyResult)>> ELSE <<>>)

\* const json = JSON.parse(line) of the request loop throws on a line that is
\* not JSON.  A request line is a record with a method; any other line is text.
ParseRequestThrows(line) == "method" \notin DOMAIN line

\* The body of the request loop inside its try block: what it writes to stdout
\* for one line of stdin.  The catch block writes the error to stderr only.
RequestLoopBody(line) ==
    IF ParseRequestThrows(line) THEN <<>> ELSE ServerOutput(line)

\* Mutant: no try/catch; the exception ends the process, and what is left on
\* its stdin is never read.
AfterLineUncaught(line, rest) == IF ParseRequestThrows(line) THEN <<>> ELSE rest

\* for await (const line of rl): after a line, caught exception or not, the
\* loop goes on with the rest of stdin.
AfterLine(line, rest) == rest

(***************************************************************************)
(* A stub peer: a process in the server's place that answers as the server *)
(* does, except that it declares any subset of the capabilities and may    *)
(* answer a request with a faulty line.                                    *)
(***************************************************************************)
StubError == [code |-> -32603, message |-> "Internal error"]
Garbage == TextLine("not json")

StubInitializeResult(caps) ==
    [EmptyResult EXCEPT !.capabilities = Some(caps), !.serverInfo = Some(ServerInfo)]

\* The stub's answer without a fault.
StubOutput(json, caps) ==
    IF json.method = "initialize"
    THEN <<JsonLine(json.id, Some(StubInitializeResult(caps)), None)>>
    ELSE ServerOutput(json)

\* ok: no fault; error: an error envelope in place of the response; garbageBefore,
\* garbageAfter: a line that is not JSON before or after the response.
StubModes == {"ok", "error", "garbageBefore", "garbageAfter"}

StubLines(json, caps, mode) ==
    CASE mode = "ok" -> StubOutput(json, caps)
      [] mode = "error" -> <<JsonLine(json.id, None, Some(StubError))>>
      [] mode = "garbageBefore" -> <<Garbage>> \o StubOutput(json, caps)
      [] mode = "garbageAfter" -> StubOutput(json, caps) \o <<Garbage>>

(***************************************************************************)
(* The client: src/client/src/client_open_ai.ts                            *)
(***************************************************************************)
NoParams == [name |-> None, arguments |-> JUndefined, uri |-> None]
ToolCallParams(name, arguments) ==
    [name |-> Some(name), arguments |-> arguments, uri |-> None]
ResourceParams(uri) == [name |-> None, arguments |-> JUndefined, uri |-> Some(uri)]

\* The id property send writes: lastId++ for a request, undefined (dropped by
\* JSON.stringify) for a notification.
RequestId(id, isNotification) == IF isNotification THEN None ELSE Some(id)

\* Mutant: a notification takes an id off the counter too.
NextIdAlways(id, isNotification) == id + 1

\* The counter after send.
NextId(id, isNotification) == IF isNotification THEN id ELSE id + 1

\* The line send writes to the server's stdin.
Request(method, params, id, isNotification) ==
    [jsonrpc |-> "2.0", method |-> method, params |-> params,
     id |-> RequestId(id, isNotification)]

\* What the history keeps of a written line.
Sent(line) == [method |-> line.method, id |-> line.id]

\* return JSON.parse(json).result: JSON.parse throws on a line that is not JSON;
\* the result property of a document without one is undefined (None).
ParseThrows(line) == line.kind # "json"
SendResult(line) == line.result

\* rl.question resolves with the next line only while a send is suspended in it.
AwaitingLine ==
    pc \in {"initialize", "tools/list", "resources/list", "tool", "resource", "ai_tool"}
Alive == pc \notin {"crashed", "exited"}

\* The variables of one question, which the bootstrap and the manual menu
\* entries leave alone.
questionVars ==
    <<messages, toolCallHistory, toolCallRepeatCount, lastToolCallSignature,
      finalAnswerGiven, promptResult, results, callIdx, qlog>>

\* Mutant: tools/list is fetched whatever the capabilities declare.
TruthyToolsAlways(caps) == TRUE

\* capabilities.tools ? ... : [] and capabilities.resources ? ... : []
TruthyTools(caps) == caps.tools
TruthyResources(caps) == caps.resources

\* Mutant: the exception is caught and the menu is shown.
CrashCaught ==
    /\ pc' = "menu"
    /\ pending' = None

\* An uncaught exception in main: the promise of the async function rejects
\* and nothing of main runs again.
Crash ==
    /\ pc' = "crashed"
    /\ pending' = None

\* Mutant: send goes on without taking the line off the transport.
ReadPeek(line) ==
    /\ toClient' = toClient
    /\ recv' = Some([request |-> Get(pending), line |-> line])

\* const json = await rl.question(""): the line is taken off the transport.
Read(line) ==
    /\ toClient' = Tail(toClient)
    /\ recv' = Some([request |-> Get(pending), line |-> line])

\* main starts: send("initialize", ...)
Start ==
    /\ pc = "start"
    /\ LET req == Request("initialize", NoParams, lastId, FALSE)
       IN /\ toServer' = Append(toServer, req)
          /\ sent' = Append(sent, Sent(req))
          /\ pending' = Some(req)
    /\ lastId' = NextId(lastId, FALSE)
    /\ pc' = "initialize"
    /\ UNCHANGED <<serverInfo, capabilities, tools, resources, toClient, peer, nActions, recv>>
    /\ UNCHANGED questionVars

\* Lines 166-170 once tools is known: resources/list if declared, else intro.
ListResources(caps, id, written) ==
    IF TruthyResources(caps)
    THEN LET req == Request("resources/list", NoParams, id, FALSE)
         IN /\ toServer' = toServer \o written \o <<req>>
            /\ sent' = sent \o [i \in 1..Len(written) |-> Sent(written[i])] \o <<Sent(req)>>
            /\ pending' = Some(req)
            /\ lastId' = NextId(id, FALSE)
            /\ resources' = resources
            /\ pc' = "resources/list"
    ELSE /\ toServer' = toServer \o written
         /\ sent' = sent \o [i \in 1..Len(written) |-> Sent(written[i])]
         /\ pending' = None
         /\ lastId' = id
         /\ resources' = <<>>
         /\ pc' = "menu"

\* The initialize result arrives: destructure it, send the notification, then
\* tools/list if the capabilities declare tools.
RecvInitialize ==
    /\ pc = "initialize"
    /\ toClient # <<>>
    /\ LET line == Head(toClient)
       IN /\ Read(line)
          /\ IF ParseThrows(line) \/ SendResult(line) = None
                \/ Get(SendResult(line)).capabilities = None
             THEN /\ Crash
                  \* the destructuring of undefined throws before the notification;
                  \* capabilities.tools of undefined throws after it
                  /\ LET note == Request("notifications/initialized", NoParams, lastId, TRUE)
                         written == IF ParseThrows(line) \/ SendResult(line) = None
                                    THEN <<>> ELSE <<note>>
                     IN /\ toServer' = toServer \o written
                        /\ sent' = sent \o [i \in 1..Len(written) |-> Sent(written[i])]
                  /\ UNCHANGED <<lastId, serverInfo, capabilities, tools, resources>>
             ELSE LET result == Get(SendResult(line))
                      caps == Get(result.capabilities)
                      note == Request("notifications/initialized", NoParams, lastId, TRUE)
                      afterNote == NextId(lastId, TRUE)
                  IN /\ serverInfo' = result.serverInfo
                     /\ capabilities' = Some(caps)
                     /\ IF TruthyTools(caps)
                        THEN LET req == Request("tools/list", NoParams, afterNote, FALSE)
                             IN /\ toServer' = toServer \o <<note, req>>
                                /\ sent' = sent \o <<Sent(note), Sent(req)>>
                                /\ pending' = Some(req)
                                /\ lastId' = NextId(afterNote, FALSE)
                                /\ pc' = "tools/list"
                                /\ UNCHANGED <<tools, resources>>
                        ELSE /\ tools' = <<>>
                             /\ ListResources(caps, afterNote, <<note>>)
    /\ UNCHANGED <<peer, nActions>>
    /\ UNCHANGED questionVars

\* (await send("tools/list", ...)).tools
RecvToolsList ==
    /\ pc = "tools/list"
    /\ toClient # <<>>
    /\ LET line == Head(toClient)
       IN /\ Read(line)
          /\ IF ParseThrows(line) \/ SendResult(line) = None
                \/ Get(SendResult(line)).tools = None
             THEN /\ Crash
                  /\ UNCHANGED <<lastId, tools, resources, toServer, sent>>
             ELSE /\ tools' = Get(Get(SendResult(line)).tools)
                  /\ ListResources(Get(capabilities), lastId, <<>>)
    /\ UNCHANGED <<serverInfo, capabilities, peer, nActions>>
    /\ UNCHANGED questionVars

\* (await send("resources/list", ...)).resources, then intro(...)
RecvResourcesList ==
    /\ pc = "resources/list"
    /\ toClient # <<>>
    /\ LET line == Head(toClient)
       IN /\ Read(line)
          /\ IF ParseThrows(line) \/ SendResult(line) = None
                \/ Get(SendResult(line)).resources = None
             THEN /\ Crash
                  /\ UNCHANGED resources
             ELSE /\ resources' = Get(Get(SendResult(line)).resources)
                  /\ pc' = "menu"
                  /\ pending' = None
    /\ UNCHANGED <<lastId, serverInfo, capabilities, tools, toServer, sent, peer, nActions>>
    /\ UNCHANGED questionVars

(***************************************************************************)
(* The menu loop (lines 208-280): the manual entries.                      *)
(***************************************************************************)
\* The args object the prompts of lines 234-246 build: one key for every
\* property of the schema whose type is "string".
ManualArgs(tool, answer) ==
    JObject(IF \E i \in 1..Len(tool.inputSchema.properties) :
                  /\ tool.inputSchema.properties[i].key = "name"
                  /\ tool.inputSchema.properties[i].type = "string"
            THEN Some(answer) ELSE None)

\* The history of a question before anything happened in it.  phase: idle,
\* running, answered (ended by a text), forced (ended after the guard's
\* request), failed (main died in it, of cause "callAI", "null" or "tool");
\* sigs, requested: the signature and the tool calls of every tool-call turn;
\* issued: the tools/call requests written; toolError: a tools/call was
\* answered with an error; handed: the messages passed to the last completion
\* request; earlier: until the first response of the question arrives, the
\* phase the question asked right before it ended in ("idle": none).
IdleQuestion ==
    [phase |-> "idle", completions |-> 0, sigs |-> <<>>, requested |-> <<>>,
     issued |-> <<>>, summaries |-> 0, answer |-> None, cause |-> "none",
     toolError |-> FALSE, handed |-> <<>>, earlier |-> "idle"]

\* The variables of a question are declared inside the "ai" branch: once the
\* menu moves on to another entry nothing of the last question is left.
ForgetQuestion ==
    /\ messages' = <<>>
    /\ toolCallHistory' = <<>>
    /\ toolCallRepeatCount' = 0
    /\ lastToolCallSignature' = ""
    /\ finalAnswerGiven' = FALSE
    /\ promptResult' = None
    /\ results' = <<>>
    /\ callIdx' = 0
    /\ qlog' = IdleQuestion

\* select() returns the cancel symbol: process.exit(0)
Cancel ==
    /\ pc = "menu"
    /\ pc' = "exited"
    /\ ForgetQuestion
    /\ UNCHANGED <<lastId, serverInfo, capabilities, tools, resources, toServer, toClient,
                   pending, peer, nActions, sent>>
    /\ recv' = None

\* "Run a tool": offered when tools.length > 0
RunTool ==
    /\ pc = "menu"
    /\ nActions < MaxActions
    /\ Len(tools) > 0
    /\ \E i \in 1..Len(tools), answer \in NameInputs :
         LET req == Request("tools/call",
                            ToolCallParams(tools[i].name, ManualArgs(tools[i], answer)),
                            lastId, FALSE)
         IN /\ toServer' = Append(toServer, req)
            /\ pending' = Some(req)
    /\ lastId' = NextId(lastId, FALSE)
    /\ pc' = "tool"
    /\ nActions' = nActions + 1
    /\ UNCHANGED <<serverInfo, capabilities, tools, resources, toClient, peer, sent>>
    /\ recv' = None
    /\ ForgetQuestion

\* const { content } = await send("tools/call", ...); dumpContent(content)
RecvTool ==
    /\ pc = "tool"
    /\ toClient # <<>>
    /\ LET line == Head(toClient)
       IN /\ Read(line)
          /\ IF ParseThrows(line) \/ SendResult(line) = None
                \/ Get(SendResult(line)).content = None
             THEN Crash
             ELSE /\ pc' = "menu"
                  /\ pending' = None
    /\ UNCHANGED <<lastId, serverInfo, capabilities, tools, resources, toServer, peer,
                   nActions, sent>>
    /\ UNCHANGED questionVars

\* "Get a resource": offered when resources.length > 0
GetResource ==
    /\ pc = "menu"
    /\ nActions < MaxActions
    /\ Len(resources) > 0
    /\ \E i \in 1..Len(resources) :
         LET req == Request("resources/read", ResourceParams(resources[i].uri),
                            lastId, FALSE)
         IN /\ toServer' = Append(toServer, req)
            /\ pending' = Some(req)
    /\ lastId' = NextId(lastId, FALSE)
    /\ pc' = "resource"
    /\ nActions' = nActions + 1
    /\ UNCHANGED <<serverInfo, capabilities, tools, resources, toClient, peer, sent>>
    /\ recv' = None
    /\ ForgetQuestion

\* const { contents } = await send("resources/read", ...); dumpContent(contents)
RecvResource ==
    /\ pc = "resource"
    /\ toClient # <<>>
    /\ LET line == Head(toClient)
       IN /\ Read(line)
          /\ IF ParseThrows(line) \/ SendResult(line) = None
                \/ Get(SendResult(line)).contents = None
             THEN Crash
             ELSE /\ pc' = "menu"
                  /\ pending' = None
    /\ UNCHANGED <<lastId, serverInfo, capabilities, tools, resources, toServer, peer,
                   nActions, sent>>
    /\ UNCHANGED questionVars

(***************************************************************************)
(* The pipes.                                                              *)
(***************************************************************************)
\* The repository's server reads one request line and writes its output.
ServerStep ==
    /\ peer = "server"
    /\ toServer # <<>>
    /\ toServer' = AfterLine(Head(toServer), Tail(toServer))
    /\ toClient' = toClient \o RequestLoopBody(Head(toServer))
    /\ UNCHANGED <<pc, lastId, serverInfo, capabilities, tools, resources, pending, peer,
                   nActions, sent, recv>>
    /\ UNCHANGED questionVars

\* The stub reads one request line and writes its answer.
StubStep ==
    /\ peer = "stub"
    /\ toServer # <<>>
    /\ \E mode \in StubModes, t \in BOOLEAN, r \in BOOLEAN :
         /\ mode # "ok" => Head(toServer).id # None
         /\ (t /\ r) \/ Head(toServer).method = "initialize"
         /\ toClient' = toClient \o
                StubLines(Head(toServer), [tools |-> t, resources |-> r], mode)
    /\ toServer' = Tail(toServer)
    /\ UNCHANGED <<pc, lastId, serverInfo, capabilities, tools, resources, pending, peer,
                   nActions, sent, recv>>
    /\ UNCHANGED questionVars

\* A line that arrives while no send is suspended in rl.question is emitted as
\* a 'line' event nobody listens to.
DropLine ==
    /\ Alive
    /\ ~AwaitingLine
    /\ toClient # <<>>
    /\ toClient' = Tail(toClient)
    /\ UNCHANGED <<pc, lastId, serverInfo, capabilities, tools, resources, toServer,
                   pending, peer, nActions, sent, recv>>
    /\ UNCHANGED questionVars

(***************************************************************************)
(* The Completion Client: callAI (lines 50-115).  It throws (no credential,*)
(* a status that is not OK, a network failure), or returns the tool_calls  *)
(* of the first choice when finish_reason is "tool_calls", or the message  *)
(* content: a string, or null.                                             *)
(***************************************************************************)
Prompts == {"What kinds of drinks do you have?"}
Answers == {"We offer Latte and Mocha."}

\* The tool calls a model asks for: (function.name, function.arguments), the
\* arguments being the JSON text the completion API returns.
ToolCallKinds ==
    { <<"getDrinkNames", "{}">>,
      <<"getDrinkInfo", "{\"name\":\"Latte\"}">>,
      <<"getPrice", "{}">> }

\* The id the completion API gives the i-th tool call of a question's turn.
CallId(turn, i) == "call_" \o ToString(turn) \o "_" \o ToString(i)

MkCalls(kinds, turn) ==
    [i \in 1..Len(kinds) |->
        [id |-> CallId(turn, i), type |-> "function",
         function |-> [name |-> kinds[i][1], arguments |-> kinds[i][2]]]]

Throws == [kind |-> "throw", text |-> "", calls |-> <<>>]
Text(str) == [kind |-> "text", text |-> str, calls |-> <<>>]
NullContent == [kind |-> "null", text |-> "", calls |-> <<>>]
ToolCalls(calls) == [kind |-> "tool_calls", text |-> "", calls |-> calls]

\* A turn asks for no tool call, for one, or for two.
TurnSizes == {0, 1, 2}

\* Every outcome of the turn-th callAI of a question.
Outcomes(turn) ==
    {Throws, NullContent}
    \cup {Text(a) : a \in Answers}
    \cup {ToolCalls(MkCalls(k, turn)) :
            k \in UNION {[1..n -> ToolCallKinds] : n \in TurnSizes}}

(***************************************************************************)
(* "Ask the AI" (lines 282-403).                                           *)
(***************************************************************************)
\* Mutant: the new element goes in front.
Unshift(array, element) == <<element>> \o array

\* array.push(element)
Push(array, element) == Append(array, element)

SystemPromptText ==
    "You are a helpful coffee shop assistant. When asked for recommendations, use the available drink information and make a judgment. Do not repeatedly request the same information. After you have all drink details, always answer the user's question directly. If you already have all drink info, do not call tools again."

systemPrompt ==
    [role |-> "system", content |-> Some(SystemPromptText),
     tool_call_id |-> None, tool_calls |-> None]

UserMessage(str) ==
    [role |-> "user", content |-> Some(str), tool_call_id |-> None, tool_calls |-> None]

\* assistantToolCallMsg: content null, the turn's tool calls attached
AssistantToolCallMsg(res) ==
    [role |-> "assistant", content |-> None, tool_call_id |-> None,
     tool_calls |-> Some([i \in 1..Len(res) |->
                            [id |-> res[i].id, type |-> res[i].type,
                             function |-> res[i].function]])]

ToolResultMessage(id, str) ==
    [role |-> "tool", content |-> Some(str), tool_call_id |-> Some(id),
     tool_calls |-> None]

\* toolCall.function?.name || toolCall.name
CallName(tc) == tc.function.name

\* toolCall.function?.arguments || toolCall.input: the arguments string as the
\* completion API returned it, never parsed; an empty string is falsy and
\* the absent input property is undefined.
CallArguments(tc) ==
    IF tc.function.arguments # "" THEN JString(tc.function.arguments) ELSE JUndefined

\* A value inside a template literal.
TemplateString(v) ==
    CASE v.t = "string" -> v.s
      [] v.t = "undefined" -> "undefined"
      [] OTHER -> "[object Object]"

RECURSIVE Join(_, _)
Join(strs, sep) ==
    IF strs = <<>> THEN ""
    ELSE IF Len(strs) = 1 THEN strs[1]
    ELSE strs[1] \o sep \o Join(Tail(strs), sep)

\* results.map((tc) => `${name}:${arguments}`).join("|")
ToolCallSignature(res) ==
    Join([i \in 1..Len(res) |->
            CallName(res[i]) \o ":" \o TemplateString(CallArguments(res[i]))], "|")

\* Lines 333-338: the new toolCallRepeatCount.
RepeatCount(signature, last, count) == IF signature = last THEN count + 1 ELSE 0

\* Mutant: the guard waits for one more repetition.
GuardFiresLate(count) == count >= 3

\* Line 339
GuardFires(count) == count >= 2

\* Mutant: the guard's message leaves the tool results out.
SummaryTextBare(history) ==
    "You have already received all drink information. Here is a summary:\n"
        \o "\nPlease answer the user's question directly."

\* The synthetic user message of the guard.
SummaryText(history) ==
    "You have already received all drink information. Here is a summary:\n"
        \o Join(history, "\n") \o "\nPlease answer the user's question directly."

\* Line 356
IsExecutable(tc) == tc.type = "function" \/ tc.type = "tool_use"

\* The first tool call at or after position from that the for-loop executes;
\* 0 when the loop runs out.
NextExecutable(res, from) ==
    LET S == {i \in from..Len(res) : IsExecutable(res[i])}
    IN IF S = {} THEN 0 ELSE CHOOSE i \in S : \A j \in S : i <= j

\* Lines 374-382: the drink JSON is reformatted, everything else (JSON without
\* name, price and description, or no JSON at all) is used as it is.
FormatToolResult(str) ==
    LET hits == {i \in 1..Len(drinks) : str = StringifyDrink(drinks[i])}
    IN IF hits = {} THEN str
       ELSE LET d == drinks[CHOOSE i \in hits : TRUE]
            IN d.name \o ": $" \o ToString(d.price) \o " - " \o d.description

\* A reply that reports an error: an error envelope, or the server's result
\* object that carries an error property.
IsErrorReply(line) ==
    /\ line.kind = "json"
    /\ \/ line.error # None
       \/ line.result # None /\ Get(line.result).error # None

\* The for-loop over results from position from, up to its next await: the
\* tools/call of the next executable tool call, or the completion request that
\* follows the loop.
Proceed(res, from, q) ==
    LET i == NextExecutable(res, from)
    IN IF i = 0
       THEN /\ pc' = "callAI"
            /\ callIdx' = 0
            /\ pending' = None
            /\ qlog' = [q EXCEPT !.completions = @ + 1, !.handed = messages']
            /\ UNCHANGED <<toServer, lastId>>
       ELSE LET req == Request("tools/call",
                               ToolCallParams(CallName(res[i]), CallArguments(res[i])),
                               lastId, FALSE)
            IN /\ toServer' = Append(toServer, req)
               /\ pending' = Some(req)
               /\ lastId' = NextId(lastId, FALSE)
               /\ pc' = "ai_tool"
               /\ callIdx' = i
               /\ qlog' = [q EXCEPT !.issued = Append(@, [id |-> res[i].id, request |-> req])]

\* Mutant: the guard's variables are declared outside the menu loop and keep
\* what the last question left in them.
StaleQuestion(prompt) ==
    /\ messages' = <<systemPrompt, UserMessage(prompt)>>
    /\ finalAnswerGiven' = FALSE
    /\ UNCHANGED <<toolCallHistory, toolCallRepeatCount, lastToolCallSignature>>

\* Lines 292-299: the variables of a question, declared and initialised
\* inside the "ai" branch.
FreshQuestion(prompt) ==
    /\ messages' = <<systemPrompt, UserMessage(prompt)>>
    /\ toolCallHistory' = <<>>
    /\ toolCallRepeatCount' = 0
    /\ lastToolCallSignature' = ""
    /\ finalAnswerGiven' = FALSE

\* The question is typed: fresh state, first completion request.
AskAI ==
    /\ pc = "menu"
    /\ nActions < MaxActions
    /\ \E prompt \in Prompts : FreshQuestion(prompt)
    /\ promptResult' = None
    /\ results' = <<>>
    /\ callIdx' = 0
    /\ qlog' = [IdleQuestion EXCEPT !.phase = "running", !.completions = 1,
                                     !.handed = messages',
                                     !.earlier = qlog.phase]
    /\ pc' = "callAI"
    /\ nActions' = nActions + 1
    /\ UNCHANGED <<lastId, serverInfo, capabilities, tools, resources, toServer, toClient,
                   pending, peer, sent>>
    /\ recv' = None

\* The history of the question once a response has arrived.
Started == [qlog EXCEPT !.earlier = "idle"]

\* callAIWithTools settles at line 301 or 396: one pass of the while loop up
\* to its next await.
CallAIReturn ==
    /\ pc = "callAI"
    /\ \E outcome \in Outcomes(qlog.completions) :
        /\ outcome.kind = "tool_calls" => qlog.completions < MaxTurns
        /\ CASE outcome.kind = "throw" ->
                  /\ Crash
                  /\ qlog' = [Started EXCEPT !.phase = "failed", !.cause = "callAI"]
                  /\ UNCHANGED <<messages, toolCallRepeatCount, lastToolCallSignature,
                                 finalAnswerGiven, promptResult, results, callIdx,
                                 toServer, lastId>>
             [] outcome.kind = "text" ->
                  /\ promptResult' = Some(outcome)
                  /\ finalAnswerGiven' = TRUE
                  /\ pc' = "menu"
                  /\ qlog' = [Started EXCEPT !.phase = "answered",
                                          !.answer = Some(outcome.text)]
                  /\ UNCHANGED <<messages, toolCallRepeatCount, lastToolCallSignature,
                                 results, callIdx, toServer, lastId, pending>>
             [] outcome.kind = "null" ->
                  \* results = [null]; tc.id of null throws in results.map
                  /\ promptResult' = Some(outcome)
                  /\ Crash
                  /\ qlog' = [Started EXCEPT !.phase = "failed", !.cause = "null"]
                  /\ UNCHANGED <<messages, toolCallRepeatCount, lastToolCallSignature,
                                 finalAnswerGiven, results, callIdx, toServer, lastId>>
             [] outcome.kind = "tool_calls" ->
                  LET res == outcome.calls
                      pushed == Push(messages, AssistantToolCallMsg(res))
                      signature == ToolCallSignature(res)
                      count == RepeatCount(signature, lastToolCallSignature,
                                           toolCallRepeatCount)
                      q == [Started EXCEPT
                              !.sigs = Append(@, signature),
                              !.requested = Append(@, res)]
                  IN /\ promptResult' = Some(outcome)
                     /\ results' = res
                     /\ toolCallRepeatCount' = count
                     /\ lastToolCallSignature' = signature
                     /\ finalAnswerGiven' = FALSE
                     /\ IF GuardFires(count)
                        THEN /\ messages' =
                                  Push(pushed, UserMessage(SummaryText(toolCallHistory)))
                             /\ pc' = "callAI_summary"
                             /\ qlog' = [q EXCEPT !.summaries = @ + 1,
                                                  !.completions = @ + 1,
                                                  !.handed = messages']
                             /\ UNCHANGED <<callIdx, toServer, lastId, pending>>
                        ELSE /\ messages' = pushed
                             /\ Proceed(res, 1, q)
    /\ UNCHANGED <<serverInfo, capabilities, tools, resources, toClient, toolCallHistory,
                   peer, nActions, sent, recv>>

\* The completion request of the guard settles (lines 346-351): a string is the
\* answer, and the loop ends whatever came back.
SummaryReturn ==
    /\ pc = "callAI_summary"
    /\ \E outcome \in Outcomes(qlog.completions) :
        IF outcome.kind = "throw"
        THEN /\ Crash
             /\ qlog' = [qlog EXCEPT !.phase = "failed", !.cause = "callAI"]
             /\ UNCHANGED <<promptResult, finalAnswerGiven>>
        ELSE /\ promptResult' = Some(outcome)
             /\ finalAnswerGiven' = (outcome.kind = "text")
             /\ pc' = "menu"
             /\ qlog' = [qlog EXCEPT
                           !.phase = "forced",
                           !.answer = IF outcome.kind = "text"
                                      THEN Some(outcome.text) ELSE None]
             /\ UNCHANGED pending
    /\ UNCHANGED <<lastId, serverInfo, capabilities, tools, resources, toServer, toClient,
                   messages, toolCallHistory, toolCallRepeatCount, lastToolCallSignature,
                   results, callIdx, peer, nActions, sent, recv>>

\* The tools/call of the for-loop settles (lines 366-390), and the loop goes
\* on to its next await.
RecvToolResult ==
    /\ pc = "ai_tool"
    /\ toClient # <<>>
    /\ LET line == Head(toClient)
           toolCall == results[callIdx]
       IN /\ Read(line)
          /\ IF \/ ParseThrows(line)
                \/ SendResult(line) = None                   \* destructuring undefined
                \/ Get(SendResult(line)).content = None      \* content[0] of undefined
                \/ Get(Get(SendResult(line)).content) = <<>> \* .text of undefined
             THEN /\ Crash
                  /\ qlog' = [qlog EXCEPT !.phase = "failed", !.cause = "tool",
                                          !.toolError = @ \/ IsErrorReply(line)]
                  /\ UNCHANGED <<messages, toolCallHistory, callIdx, toServer, lastId>>
             ELSE LET content == Get(Get(SendResult(line)).content)
                      toolResultString == FormatToolResult(content[1].text)
                  IN /\ toolCallHistory' = Push(toolCallHistory, toolResultString)
                     /\ messages' = Push(messages,
                                         ToolResultMessage(toolCall.id, toolResultString))
                     /\ Proceed(results, callIdx + 1,
                                [qlog EXCEPT !.toolError = @ \/ IsErrorReply(line)])
    /\ UNCHANGED <<serverInfo, capabilities, tools, resources, toolCallRepeatCount,
                   lastToolCallSignature, finalAnswerGiven, promptResult, results, peer,
                   nActions, sent>>

(***************************************************************************)
(* The specification.                                                      *)
(***************************************************************************)
Init ==
    /\ pc = "start"
    /\ lastId = 0
    /\ serverInfo = None
    /\ capabilities = None
    /\ tools = <<>>
    /\ resources = <<>>
    /\ toServer = <<>>
    /\ toClient = <<>>
    /\ pending = None
    /\ messages = <<>>
    /\ toolCallHistory = <<>>
    /\ toolCallRepeatCount = 0
    /\ lastToolCallSignature = ""
    /\ finalAnswerGiven = FALSE
    /\ promptResult = None
    /\ results = <<>>
    /\ callIdx = 0
    /\ peer \in {"server", "stub"}
    /\ nActions = 0
    /\ sent = <<>>
    /\ recv = None
    /\ qlog = IdleQuestion

Next ==
    \/ Start
    \/ RecvInitialize
    \/ RecvToolsList
    \/ RecvResourcesList
    \/ Cancel
    \/ RunTool
    \/ RecvTool
    \/ GetResource
    \/ RecvResource
    \/ AskAI
    \/ CallAIReturn
    \/ SummaryReturn
    \/ RecvToolResult
    \/ ServerStep
    \/ StubStep
    \/ DropLine

Spec == Init /\ [][Next]_vars

(***************************************************************************)
(* The server on its own: its stdin is fed a script of lines, well-formed  *)
(* or not, and nothing reads its stdout.  sent holds the script.           *)
(***************************************************************************)
ServerInputs ==
    { Garbage,
      Request("initialize", NoParams, 0, FALSE),
      Request("notifications/initialized", NoParams, 0, TRUE),
      Request("tools/list", NoParams, 1, FALSE),
      Request("tools/call", ToolCallParams("getDrinkNames", JObject(None)), 2, FALSE),
      Request("tools/call", ToolCallParams("getDrinkInfo", JObject(Some("Latte"))), 3, FALSE),
      Request("tools/call", ToolCallParams("getDrinkInfo", JUndefined), 4, FALSE),
      Request("tools/call", ToolCallParams("getPrice", JObject(None)), 5, FALSE),
      Request("resources/list", NoParams, 6, FALSE),
      Request("resources/read", ResourceParams("menu://app"), 7, FALSE),
      Request("ping", NoParams, 8, FALSE) }

Scripts == UNION {[1..n -> ServerInputs] : n \in 0..MaxLines}

InitServer ==
    /\ pc = "absent"
    /\ peer = "server"
    /\ \E script \in Scripts : sent = script /\ toServer = script
    /\ toClient = <<>>
    /\ lastId = 0
    /\ serverInfo = None
    /\ capabilities = None
    /\ tools = <<>>
    /\ resources = <<>>
    /\ pending = None
    /\ messages = <<>>
    /\ toolCallHistory = <<>>
    /\ toolCallRepeatCount = 0
    /\ lastToolCallSignature = ""
    /\ finalAnswerGiven = FALSE
    /\ promptResult = None
    /\ results = <<>>
    /\ callIdx = 0
    /\ nActions = 0
    /\ recv = None
    /\ qlog = IdleQuestion

NextServer == ServerStep

ServerSpec == InitServer /\ [][NextServer]_vars

(***************************************************************************)
(* Properties.                                                             *)
(***************************************************************************)
Methods(log) == [i \in 1..Len(log) |-> log[i].method]
IsPrefix(a, b) == Len(a) <= Len(b) /\ \A i \in 1..Len(a) : a[i] = b[i]

BootstrapStates == {"start", "initialize", "tools/list", "resources/list"}
Ready == pc \in {"menu", "tool", "resource", "callAI", "callAI_summary", "ai_tool", "exited"}

\* The requests of the bootstrap sequence for the capabilities caps.
Handshake(caps) ==
    <<"initialize", "notifications/initialized">>
    \o (IF caps.tools THEN <<"tools/list">> ELSE <<>>)
    \o (IF caps.resources THEN <<"resources/list">> ELSE <<>>)

\* A request for a tool or a resource is written or awaited.
WorkRequested ==
    \/ \E i \in 1..Len(toServer) : toServer[i].method \in {"tools/call", "resources/read"}
    \/ pending # None /\ Get(pending).method \in {"tools/call", "resources/read"}

\* Something past the bootstrap happened: a menu selection, a request for a
\* tool or a resource, a question.
Worked == nActions > 0 \/ WorkRequested \/ qlog # IdleQuestion

\* C9. Bootstrap order: the first line written is the initialize request; until
\* its response is received nothing else is written; what is written after it
\* is the notification, then tools/list only if the received capabilities
\* declare tools, then resources/list only if they declare resources and only
\* once the tool catalog is in; an undeclared catalog is empty; and before the
\* whole sequence is through there is no menu selection, no tools/call, no
\* resources/read and no completion request.
C9_BootstrapOrder ==
    /\ sent # <<>> => sent[1].method = "initialize" /\ sent[1].id # None
    /\ capabilities = None => IsPrefix(Methods(sent), <<"initialize">>)
    /\ capabilities # None =>
         /\ IsPrefix(Methods(sent), Handshake(Get(capabilities)))
         /\ Len(sent) >= 2 /\ sent[2].id = None
         /\ ~Get(capabilities).tools => tools = <<>>
         /\ ~Get(capabilities).resources => resources = <<>>
         /\ (\E i \in 1..Len(sent) : sent[i].method = "resources/list")
               /\ Get(capabilities).tools => tools # <<>>
    /\ pc \in BootstrapStates => ~Worked
    /\ Ready \/ Worked =>
         /\ capabilities # None
         /\ Methods(sent) = Handshake(Get(capabilities))
         /\ Get(capabilities).tools => tools # <<>>
         /\ Get(capabilities).resources => resources # <<>>

\* C9 witness: the menu is reached with a server that declares resources only.
C9_Witness ==
    /\ pc = "menu"
    /\ capabilities = Some([tools |-> FALSE, resources |-> TRUE])
    /\ Methods(sent) = <<"initialize", "notifications/initialized", "resources/list">>
    /\ tools = <<>> /\ resources # <<>>

\* The last line send() read answers a bootstrap request with an error envelope
\* or with a line that is not JSON.
BootstrapFailure ==
    /\ recv # None
    /\ Get(recv).request.method \in {"initialize", "tools/list", "resources/list"}
    /\ \/ Get(recv).line.kind = "text"
       \/ Get(recv).line.error # None

\* C10. A bootstrap step answered with an error envelope or an unparsable line
\* aborts startup: main is dead, no menu selection was made, no tools/call or
\* resources/read is written and no completion request is sent.
C10_HandshakeFailureFatal ==
    BootstrapFailure =>
        /\ pc = "crashed"
        /\ nActions = 0
        /\ ~WorkRequested
        /\ qlog = IdleQuestion

\* C10 witness: tools/list was answered with an error envelope.
C10_Witness ==
    /\ BootstrapFailure
    /\ Get(recv).request.method = "tools/list"
    /\ Get(recv).line.error # None
    /\ pc = "crashed"

(***************************************************************************)
(* The question loop.                                                      *)
(***************************************************************************)
RECURSIVE Flatten(_)
Flatten(seqs) == IF seqs = <<>> THEN <<>> ELSE Head(seqs) \o Flatten(Tail(seqs))

\* The tool calls the model asked for in the question, in order, and the ids
\* of those a tools/call was written for.
RequestedCalls == Flatten(qlog.requested)
RequestedIds == [i \in 1..Len(RequestedCalls) |-> RequestedCalls[i].id]
IssuedIds == [i \in 1..Len(qlog.issued) |-> qlog.issued[i].id]

\* Every tool call asked for so far names a tool of the catalog.
CatalogCallsOnly ==
    \A i \in 1..Len(RequestedCalls) :
        \E j \in 1..Len(tools) : tools[j].name = RequestedCalls[i].function.name

\* The Completion Client has answered every request of the question so far.
ModelAnswered == qlog.cause \notin {"callAI", "null"}

\* Every turn so far asked for one and the same tool call.
SameCallEveryTurn ==
    /\ qlog.sigs # <<>>
    /\ qlog.answer = None
    /\ \A i \in 1..Len(qlog.sigs) :
          qlog.sigs[i] = qlog.sigs[1] /\ Len(qlog.requested[i]) = 1

\* C1. Loop termination (the claim as stated, against the repository's server
\* and for a tool of its catalog): while the model returns the same tool call
\* on every turn, at most 3 tools/call are written, main does not die of one,
\* the third turn sends the one summarization request, and the loop ends after
\* it.
C1_LoopTermination ==
    peer = "server" /\ SameCallEveryTurn /\ CatalogCallsOnly /\ ModelAnswered =>
        /\ Len(qlog.issued) <= 3
        /\ qlog.phase # "failed"
        /\ Len(qlog.sigs) <= 3
        /\ qlog.summaries = (IF Len(qlog.sigs) = 3 THEN 1 ELSE 0)
        /\ qlog.phase = "forced" <=> (qlog.summaries = 1 /\ pc # "callAI_summary")

\* The length of the run of equal consecutive signatures that ends at turn t.
RECURSIVE RunPos(_, _)
RunPos(sigs, t) ==
    IF t > 1 /\ sigs[t - 1] = sigs[t] THEN RunPos(sigs, t - 1) + 1 ELSE 1

\* What the turns of a question allow: the tool calls of the first two turns
\* of every run of equal consecutive signatures.
Allowed ==
    LET turns == {t \in 1..Len(qlog.sigs) : RunPos(qlog.sigs, t) <= 2}
        f[S \in SUBSET turns] ==
            IF S = {} THEN 0
            ELSE LET t == CHOOSE x \in S : TRUE
                 IN Len(qlog.requested[t]) + f[S \ {t}]
    IN f[turns]

MaxTurnSize == CHOOSE n \in TurnSizes : \A m \in TurnSizes : m <= n

\* C2 as stated, with the least constant the guard is compatible with: a
\* signature repeated on every turn gets two turns of tool calls, so a bound
\* that does not depend on the responses is at least 2 * MaxTurnSize.
C2_BoundedToolCalls == Len(qlog.issued) <= 2 * MaxTurnSize

\* C2 amended. The guard bounds the tools/call of a run of equal consecutive
\* signatures, not of the question: a third equal signature in a row is the
\* last turn of the question, its tool calls are not executed and the
\* summarization request follows; the tools/call written are at most the tool
\* calls of the first two turns of every run, which grows with every change of
\* signature.
C2_BoundedPerRun ==
    /\ Len(qlog.issued) <= Allowed
    /\ \A t \in 1..Len(qlog.sigs) :
          RunPos(qlog.sigs, t) >= 3 => t = Len(qlog.sigs) /\ qlog.summaries = 1
    /\ qlog.summaries = 1 => pc \in {"callAI_summary", "menu", "crashed"}

\* C2 witness: signatures that alternate get a third turn of tool calls, and
\* more tools/call than a repeated signature can.
C2_Witness ==
    /\ Len(qlog.sigs) = 3
    /\ qlog.sigs[1] = qlog.sigs[3] /\ qlog.sigs[1] # qlog.sigs[2]
    /\ Len(qlog.issued) > 2 * MaxTurnSize
    /\ qlog.summaries = 0
    /\ pc = "callAI"

(***************************************************************************)
(* Requests and replies.                                                   *)
(***************************************************************************)
\* C3. Correlation (the claim as stated): against the repository's server
\* the line send() reads after writing a request is the response to that
\* request, a JSON-RPC envelope that carries the request's id and a result;
\* tools/call of any tool included.
C3_Correlation ==
    peer = "server" /\ recv # None =>
        /\ Get(recv).line.kind = "json"
        /\ Get(recv).line.id = Get(recv).request.id
        /\ Get(recv).line.result # None

\* The turns of the question so far have pairwise distinct signatures.
DistinctTurns ==
    /\ qlog.sigs # <<>>
    /\ \A i, j \in 1..Len(qlog.sigs) : i # j => qlog.sigs[i] # qlog.sigs[j]

\* C4. Non-repeat pass-through (the claim as stated, against the repository's
\* server and for tools of its catalog): while the signatures of the turns are
\* pairwise distinct the guard does not fire, every requested tool call is
\* written exactly once and in order, main does not die of one, and the loop
\* ends with the model's text response.
C4_PassThrough ==
    peer = "server" /\ DistinctTurns /\ CatalogCallsOnly /\ ModelAnswered =>
        /\ qlog.summaries = 0
        /\ qlog.phase \in {"running", "answered"}
        /\ IsPrefix(IssuedIds, RequestedIds)
        /\ pc = "callAI" => IssuedIds = RequestedIds
        /\ qlog.phase = "answered" =>
              IssuedIds = RequestedIds /\ qlog.answer # None

\* C5. Malformed lines (the claim as stated): a line of the peer that is not
\* JSON, arriving after a valid response and before the response to the
\* request in flight, is skipped; the client lives on to read that response.
C5_MalformedLineSkipped ==
    /\ recv # None
    /\ Get(recv).line.kind = "text"
    /\ serverInfo # None
    /\ toClient # <<>>
    /\ Head(toClient).kind = "json"
    /\ Head(toClient).id = Get(recv).request.id
    => Alive

\* C6. Remote tool errors (the claim as stated): the error the server
\* answers a tools/call with is surfaced to the question and is not fatal.
C6_ToolErrorNotFatal ==
    peer = "server" /\ qlog.toolError => qlog.phase # "failed" /\ Alive

\* C7. Completion failures (the claim as stated): a callAI that throws ends
\* the question and the session returns to the menu.
C7_CallAIFailureReturnsToMenu ==
    peer = "server" /\ qlog.cause = "callAI" => Alive

\* The model's first response to the question was the one tool call
\* getDrinkNames with the arguments text "{}".
AsksDrinkNames ==
    /\ qlog.requested # <<>>
    /\ Len(qlog.requested[1]) = 1
    /\ CallName(qlog.requested[1][1]) = "getDrinkNames"
    /\ qlog.requested[1][1].function.arguments = "{}"

\* C8. The getDrinkNames scenario (the claim as stated): the orchestrator
\* writes one tools/call with name getDrinkNames and arguments the empty
\* object, the server answers the three names, and the model's text response
\* to the second request ends the question after that one call.
C8_DrinkNamesScenario ==
    peer = "server" /\ AsksDrinkNames =>
        /\ qlog.issued # <<>> =>
              qlog.issued[1].request.params =
                  [name |-> Some("getDrinkNames"), arguments |-> JObject(None),
                   uri |-> None]
        /\ qlog.completions >= 2 =>
              /\ Len(qlog.issued) >= 1
              /\ Len(messages) >= 4
              /\ messages[4].role = "tool"
              /\ messages[4].content = StringifyNames
        /\ qlog.phase = "answered" /\ Len(qlog.sigs) = 1 =>
              Len(qlog.issued) = 1 /\ qlog.answer # None

(***************************************************************************)
(* The transport.                                                          *)
(***************************************************************************)
\* The requests written that the peer has not read, and the responses written
\* that the client has not read.
UnreadRequests == {i \in 1..Len(toServer) : toServer[i].id # None}
UnreadResponses ==
    {i \in 1..Len(toClient) : toClient[i].kind = "json" /\ toClient[i].id # None}

\* C11. Single-flight: at most one request is written and not yet answered,
\* and it is the one the suspended send() wrote; in a turn of several tool
\* calls the tools/call of a tool call is in flight only when the results of
\* all tool calls before it have been read and recorded.
C11_SingleFlight ==
    /\ Cardinality(UnreadRequests) + Cardinality(UnreadResponses) <= 1
    /\ \A i \in UnreadRequests : Alive => pending = Some(toServer[i])
    /\ \A i \in UnreadResponses :
          Alive => pending # None /\ toClient[i].id = Get(pending).id
    /\ pending # None => AwaitingLine
    /\ pc = "ai_tool" =>
          /\ Len(qlog.issued) = Len(toolCallHistory) + 1
          /\ qlog.issued[Len(qlog.issued)].request = Get(pending)
    /\ pc \in {"callAI", "callAI_summary"} =>
          Len(qlog.issued) = Len(toolCallHistory)

\* C11 witness: the second tools/call of a turn of two tool calls is in
\* flight, the result of the first recorded.
C11_Witness ==
    /\ pc = "ai_tool"
    /\ Len(results) = 2
    /\ callIdx = 2
    /\ Len(toolCallHistory) = 1
    /\ UnreadRequests # {}

\* The lines a step of the client appends to the server's stdin.
NewLines ==
    IF Len(toServer') > Len(toServer)
    THEN SubSeq(toServer', Len(toServer) + 1, Len(toServer'))
    ELSE <<>>

NewRequests == SelectSeq(NewLines, LAMBDA l : l.id # None)

\* C12. Request identifiers: the requests a step writes carry the successive
\* values of the counter, which moves by exactly their number and so never
\* goes back: ids are strictly increasing and never used twice, from the
\* bootstrap through every later menu entry and question.  A notification is
\* written without an id, takes none off the counter, and no send is ever
\* suspended on the transport for it.
C12_RequestIds ==
    [][/\ \A i \in 1..Len(NewRequests) : NewRequests[i].id = Some(lastId + i - 1)
       /\ lastId' = lastId + Len(NewRequests)
       /\ \A i \in 1..Len(NewLines) :
             NewLines[i].id = None <=> NewLines[i].method = "notifications/initialized"
       /\ pending' # None =>
             /\ Get(pending').method # "notifications/initialized"
             /\ Get(pending').id = Some(lastId' - 1)
       /\ Len(toClient) - Len(toClient') <= 1]_vars

\* C12 witness: a tools/call of the second question of a session is in
\* flight with the id that follows all ids of the bootstrap and of the first
\* question, the notification having taken none.
C12_Witness ==
    /\ nActions = 2
    /\ pc = "ai_tool"
    /\ Len(sent) = 4 /\ sent[2].id = None /\ sent[4].id = Some(2)
    /\ Get(pending).id = Some(lastId - 1)
    /\ lastId >= 5

(***************************************************************************)
(* The catalogs.                                                           *)
(***************************************************************************)
\* C13. Idempotent catalog fetch: the catalogs a session holds once the
\* bootstrap is over are the same in every session against the same server,
\* whatever the session did or does: for every capability the server declares
\* the entries of its list, in its order, with the same names, descriptions,
\* input schemas and uris, and no entry for a capability it does not declare.
C13_SameCatalog ==
    Ready \/ Worked =>
        /\ tools =
              IF Get(capabilities).tools
              THEN << [name |-> "getDrinkNames",
                       description |-> "Get the names of the drinks in the shop",
                       inputSchema |-> [type |-> "object", properties |-> <<>>,
                                        required |-> None]],
                      [name |-> "getDrinkInfo",
                       description |-> "Get more info about the drink",
                       inputSchema |->
                           [type |-> "object",
                            properties |-> << [key |-> "name", type |-> "string"] >>,
                            required |-> Some(<<"name">>)]] >>
              ELSE <<>>
        /\ resources =
              IF Get(capabilities).resources
              THEN << [uri |-> "menu://app", name |-> "menu"] >>
              ELSE <<>>
        /\ peer = "server" => Get(capabilities) = [tools |-> TRUE, resources |-> TRUE]

\* C13 witness: a session against the repository's server that has run a
\* first menu entry holds both catalogs in full.
C13_Witness ==
    /\ peer = "server"
    /\ pc = "menu"
    /\ nActions = 1
    /\ Len(tools) = 2 /\ tools[2].name = "getDrinkInfo"
    /\ Len(resources) = 1

(***************************************************************************)
(* The guard.                                                              *)
(***************************************************************************)
\* The guard fired at turn t of the question: the turn is the last one and
\* the summarization request followed it.
FiredAt(t) == t = Len(qlog.sigs) /\ qlog.summaries = 1

\* Turn t is at least the third of the question and has the signature of the
\* two turns before it.
ThirdInARow(t) ==
    /\ t >= 3
    /\ qlog.sigs[t] = qlog.sigs[t - 1]
    /\ qlog.sigs[t] = qlog.sigs[t - 2]

\* C14. Guard firing condition (the claim as stated): the guard fires at a
\* turn exactly when the turn is at least the third of the question and its
\* signature equals those of the two turns before it, whatever the signature,
\* that of an empty tool-call list included; a turn whose signature differs
\* from the previous turn's leaves toolCallRepeatCount 0 and
\* lastToolCallSignature the new signature.
C14_GuardFiringCondition ==
    /\ \A t \in 1..Len(qlog.sigs) : FiredAt(t) <=> ThirdInARow(t)
    /\ LET n == Len(qlog.sigs)
       IN n >= 2 /\ qlog.sigs[n] # qlog.sigs[n - 1] =>
             toolCallRepeatCount = 0 /\ lastToolCallSignature = qlog.sigs[n]

\* C15. Guard action: once the guard has fired, no tools/call was written for
\* the tool calls of that turn; the last message is the one user message that
\* carries the tool results recorded so far, joined, right after the turn's
\* assistant message; exactly one completion request followed the turn; and
\* the loop is over whatever that request returns: the client is suspended in
\* it, or back at the menu, or dead of it, with no tools/call and no
\* completion request after it.
C15_GuardAction ==
    /\ qlog.summaries <= 1
    /\ qlog.summaries = 1 =>
          LET n == Len(qlog.sigs)
              last == qlog.requested[n]
              m == Len(messages)
          IN /\ \A i \in 1..Len(last), j \in 1..Len(qlog.issued) :
                    qlog.issued[j].id # last[i].id
             /\ messages[m].role = "user"
             /\ messages[m].content =
                    Some("You have already received all drink information. Here is a summary:\n"
                           \o Join(toolCallHistory, "\n")
                           \o "\nPlease answer the user's question directly.")
             /\ messages[m - 1].role = "assistant"
             /\ messages[m - 1].tool_calls = Some(last)
             /\ Cardinality({i \in 1..m : messages[i].role = "user"}) = 2
             /\ qlog.completions = n + 1
             /\ Len(qlog.issued) = Len(toolCallHistory)
             /\ pc \in {"callAI_summary", "menu", "crashed"}
             /\ pc = "menu" => qlog.phase = "forced"
             /\ pc = "crashed" => qlog.cause = "callAI"

\* C15 witness: the guard fired after two executed turns and its request
\* returned one more tool-call list; the loop is over all the same.
C15_Witness ==
    /\ qlog.summaries = 1
    /\ pc = "menu"
    /\ qlog.phase = "forced"
    /\ promptResult # None /\ Get(promptResult).kind = "tool_calls"
    /\ ~finalAnswerGiven
    /\ Len(toolCallHistory) = 2

(***************************************************************************)
(* The turns of a question.                                                *)
(***************************************************************************)
\* The text of the repository's server's response to a tools/call request.
ReplyText(req) ==
    LET out == ServerOutput(req)
        reply == out[Len(out)]
    IN Get(Get(reply.result).content)[1].text

\* The tool-role messages of the conversation, in order.
ToolMessages == SelectSeq(messages, LAMBDA msg : msg.role = "tool")

\* C16. Per-turn tool execution (the claim as stated, against the
\* repository's server and for tools of its catalog): on the turns the guard
\* lets through main does not die, tools/call are written for the requested
\* tool calls in their order, and once a turn is over every requested tool
\* call has its tools/call, its entry in toolCallHistory and its tool-role
\* message, in order, the message carrying the tool call's id and the text of
\* the response.
C16_PerTurnExecution ==
    peer = "server" /\ CatalogCallsOnly /\ ModelAnswered /\ qlog.summaries = 0 =>
        /\ qlog.phase # "failed"
        /\ IsPrefix(IssuedIds, RequestedIds)
        /\ Len(ToolMessages) = Len(toolCallHistory)
        /\ pc = "callAI" =>
              /\ IssuedIds = RequestedIds
              /\ Len(toolCallHistory) = Len(RequestedIds)
              /\ \A i \in 1..Len(ToolMessages) :
                    /\ ToolMessages[i].tool_call_id = Some(RequestedIds[i])
                    /\ ToolMessages[i].content =
                          Some(ReplyText(qlog.issued[i].request))
                    /\ toolCallHistory[i] = ReplyText(qlog.issued[i].request)

\* A step inside one question: not the one that starts it.
SameQuestion == qlog.phase # "idle" /\ nActions' = nActions /\ qlog'.phase # "idle"

\* C17. Append-only conversation: the messages passed to a completion request
\* begin with the system prompt and the user's question, and the messages
\* passed to the next request of the question extend them by at least one
\* message; between requests messages only grows at its end.
C17_AppendOnly ==
    [][/\ qlog'.phase # "idle" =>
             /\ Len(qlog'.handed) >= 2
             /\ qlog'.handed[1] = systemPrompt
             /\ qlog'.handed[2].role = "user"
             /\ qlog'.handed[2].content \in {Some(p) : p \in Prompts}
             /\ IsPrefix(qlog'.handed, messages')
       /\ SameQuestion => IsPrefix(messages, messages')
       /\ SameQuestion /\ qlog'.completions # qlog.completions =>
             /\ qlog'.completions = qlog.completions + 1
             /\ qlog'.handed = messages'
             /\ IsPrefix(qlog.handed, qlog'.handed)
             /\ Len(qlog'.handed) > Len(qlog.handed)]_vars

\* C17 witness: the third completion request of a question is out, with the
\* assistant and tool messages of two turns behind the first two messages.
C17_Witness ==
    /\ pc = "callAI"
    /\ qlog.completions = 3
    /\ qlog.handed = messages
    /\ Len(messages) >= 6
    /\ messages[3].role = "assistant" /\ messages[4].role = "tool"

\* toolCallRepeatCount as lines 333-338 compute it from the signatures of
\* one question alone, lastToolCallSignature starting empty.
RECURSIVE CountOf(_)
CountOf(sigs) ==
    LET n == Len(sigs)
    IN IF n = 0 THEN 0
       ELSE IF sigs[n] = (IF n = 1 THEN "" ELSE sigs[n - 1])
       THEN CountOf(SubSeq(sigs, 1, n - 1)) + 1
       ELSE 0

\* C18. Fresh state per question: a question that has started and got no
\* response yet has messages = [system prompt, user question], an empty
\* toolCallHistory, toolCallRepeatCount 0 and an empty lastToolCallSignature,
\* whatever the question before it did; and all through a question the guard's
\* variables and the history are what the turns of this question alone make
\* them.
C18_FreshState ==
    /\ qlog.phase = "running" /\ qlog.sigs = <<>> =>
          /\ messages \in {<<systemPrompt, UserMessage(p)>> : p \in Prompts}
          /\ toolCallHistory = <<>>
          /\ toolCallRepeatCount = 0
          /\ lastToolCallSignature = ""
    /\ qlog.phase # "idle" =>
          /\ toolCallRepeatCount = CountOf(qlog.sigs)
          /\ lastToolCallSignature =
                (IF qlog.sigs = <<>> THEN "" ELSE qlog.sigs[Len(qlog.sigs)])
          /\ toolCallHistory =
                [i \in 1..Len(ToolMessages) |-> Get(ToolMessages[i].content)]
          /\ Len(toolCallHistory) <= Len(qlog.issued)

\* C18 witness: the question asked right after one that the guard ended has
\* its first completion request out, with fresh variables.
C18_Witness ==
    /\ qlog.earlier = "forced"
    /\ pc = "callAI"
    /\ qlog.phase = "running"
    /\ qlog.sigs = <<>>
    /\ Len(messages) = 2
    /\ toolCallRepeatCount = 0
    /\ lastToolCallSignature = ""
    /\ toolCallHistory = <<>>

(***************************************************************************)
(* The server's side of the transport.                                     *)
(***************************************************************************)
\* C19. Writer-side framing (the claim as stated): every line the
\* repository's server writes to its standard output is one JSON document, a
\* response envelope with an id and a result, whatever request it handles,
\* tools/call of getDrinkNames and of getDrinkInfo included.
C19_WriterFraming ==
    peer = "server" =>
        \A i \in 1..Len(toClient) :
            /\ toClient[i].kind = "json"
            /\ toClient[i].id # None
            /\ toClient[i].result # None

\* The lines of the script the server has read.
Consumed == SubSeq(sent, 1, Len(sent) - Len(toServer))

\* A request the server has a handler for, with an id and the params the
\* handler needs: a call of getDrinkInfo has its arguments object.
ValidRequest(line) ==
    /\ ~ParseRequestThrows(line)
    /\ line.jsonrpc = "2.0"
    /\ line.id # None
    /\ line.method \in {"initialize", "tools/list", "tools/call", "resources/list",
                        "resources/read", "ping"}
    /\ line.method = "tools/call" /\ line.params.name = Some("getDrinkInfo") =>
          line.params.arguments.t = "object"

\* The response envelopes on the server's stdout.
Responses == SelectSeq(toClient, LAMBDA l : l.kind = "json")

\* C20. Malformed request lines (the server fed on its own): the response
\* envelopes written are, in order, one for every valid request read, each
\* with that request's id and a result, and nothing else: a line that is not
\* JSON gets no response line, and the valid requests read after it are
\* answered as the ones before it.
C20_ServerSkipsMalformed ==
    LET valid == SelectSeq(Consumed, ValidRequest)
    IN /\ Len(Responses) = Len(valid)
       /\ \A i \in 1..Len(Responses) :
             /\ Responses[i].id = valid[i].id
             /\ Responses[i].result # None
             /\ Responses[i].error = None

\* C20 witness: a line that is not JSON was read between two valid requests,
\* and both are answered.
C20_Witness ==
    /\ toServer = <<>>
    /\ Len(sent) = 3
    /\ ValidRequest(sent[1])
    /\ ParseRequestThrows(sent[2])
    /\ ValidRequest(sent[3])
    /\ Len(Responses) = 2
    /\ Responses[2].id = sent[3].id

\* The methods the request loop has a branch for.
HandledMethods ==
    {"initialize", "tools/list", "tools/call", "resources/list", "resources/read", "ping"}

\* A request line of one of the handled methods (it carries an id).
IsRequestLine(line) ==
    /\ ~ParseRequestThrows(line)
    /\ line.method \in HandledMethods
    /\ line.id # None

\* The notification of the handshake.
IsInitializedNotification(line) ==
    /\ ~ParseRequestThrows(line)
    /\ line.method = "notifications/initialized"

\* A script made of request lines of the handled methods and of
\* notifications/initialized lines only.
RequestScript ==
    \A i \in 1..Len(sent) : IsRequestLine(sent[i]) \/ IsInitializedNotification(sent[i])

\* C21. One-for-one answers in FIFO order (the server fed on its own): when
\* every line of the script is a request of a handled method or a
\* notifications/initialized line, the response envelopes written are, in
\* order, exactly one per request read, each with the id of its request, and
\* none for a notifications/initialized line.
C21_OneForOneFifo ==
    RequestScript =>
        LET requests == SelectSeq(Consumed, IsRequestLine)
        IN /\ Len(Responses) = Len(requests)
           /\ \A i \in 1..Len(Responses) : Responses[i].id = requests[i].id

\* An assistant message that carries a tool-call list.
CarriesToolCalls(msg) == msg.role = "assistant" /\ msg.tool_calls # None

\* The position of the nearest assistant message before position i (0: none).
NearestAssistant(msgs, i) ==
    LET before == {j \in 1..(i - 1) : msgs[j].role = "assistant"}
    IN IF before = {} THEN 0 ELSE CHOOSE j \in before : \A k \in before : k <= j

\* A messages sequence in which every assistant message with a tool-call list
\* is followed at once by one tool-role message per tool-call id, in the order
\* of the list, and every tool-role message answers an id of the nearest
\* assistant message before it.
WellFormedConversation(msgs) ==
    /\ \A i \in 1..Len(msgs) :
          CarriesToolCalls(msgs[i]) =>
              LET calls == Get(msgs[i].tool_calls)
              IN /\ i + Len(calls) <= Len(msgs)
                 /\ \A k \in 1..Len(calls) :
                       /\ msgs[i + k].role = "tool"
                       /\ msgs[i + k].tool_call_id = Some(calls[k].id)
    /\ \A i \in 1..Len(msgs) :
          msgs[i].role = "tool" =>
              LET a == NearestAssistant(msgs, i)
              IN /\ a > 0
                 /\ CarriesToolCalls(msgs[a])
                 /\ \E k \in 1..Len(Get(msgs[a].tool_calls)) :
                       msgs[i].tool_call_id = Some(Get(msgs[a].tool_calls)[k].id)

\* C22. Well-formed conversation: every messages sequence handed to the
\* completion client, on a normal turn or on the summarization request of the
\* loop guard, has each assistant message with a tool-call list followed at
\* once by one tool-role message per tool-call id, in order, and each
\* tool-role message answering the nearest assistant message before it.
C22_WellFormedConversation == WellFormedConversation(qlog.handed)

(***************************************************************************)
(* The single-round client: src/client/src/client.ts.  Its send, its       *)
(* handshake and its "tool" and "resource" menu entries (lines 57-198) are *)
(* the code of client_open_ai.ts line for line, so the actions above stand *)
(* for them; its Completion Client and its "ai" branch are its own.        *)
(***************************************************************************)
\* The content blocks of a model response.
TextBlock(str) == [type |-> "text", text |-> str]
ToolUseBlock(id, name, input) ==
    [type |-> "tool_use", id |-> id, name |-> name, input |-> input]
ToolResultBlock(id, str) == [type |-> "tool_result", tool_use_id |-> id, content |-> str]

\* The tool uses a model asks for: (name, input), input an object.
ToolUseKinds ==
    { <<"getDrinkNames", JObject(None)>>,
      <<"getDrinkInfo", JObject(Some("Latte"))>>,
      <<"getPrice", JObject(None)>> }

ToolUseId(request, i) == "toolu_" \o ToString(request) \o "_" \o ToString(i)

\* What a block list is drawn from: "text" or a tool use.
BlockKinds == {<<"text", JUndefined>>} \cup ToolUseKinds

MkBlocks(kinds, request) ==
    [i \in 1..Len(kinds) |->
        IF kinds[i][1] = "text"
        THEN TextBlock("Let me check.")
        ELSE ToolUseBlock(ToolUseId(request, i), kinds[i][1], kinds[i][2])]

BlockCounts == {0, 1, 2}

\* callAI (lines 24-45): fetch rejects, or data.content is returned: the
\* block list of the response, undefined when the body is an error document.
FetchThrows == [kind |-> "throw", blocks |-> <<>>]
UndefinedContent == [kind |-> "undefined", blocks |-> <<>>]
Content(blocks) == [kind |-> "content", blocks |-> blocks]

ContentOutcomes(request) ==
    {FetchThrows, UndefinedContent}
        \cup {Content(MkBlocks(kinds, request)) :
                kinds \in UNION {[1..n -> BlockKinds] : n \in BlockCounts}}

\* The content of a message: a string, a block list, or undefined.
StringContent(str) == JString(str)
ArrayContent(blocks) == [t |-> "array", blocks |-> blocks]

\* { role: "user", content: prompt }
PromptMessage(str) == [role |-> "user", content |-> StringContent(str)]

\* { role: "assistant", content: promptResult }
AssistantMessage(outcome) ==
    [role |-> "assistant",
     content |-> IF outcome.kind = "content" THEN ArrayContent(outcome.blocks)
                 ELSE JUndefined]

\* { role: "user", content: [{ type: "tool_result", tool_use_id, content }] }
ToolResultUserMessage(id, str) ==
    [role |-> "user", content |-> ArrayContent(<<ToolResultBlock(id, str)>>)]

\* The history of one question of client.ts.  followup: the block list of the
\* follow-up response once it has arrived.
SingleRoundQuestion ==
    [phase |-> "running", completions |-> 1, issued |-> <<>>, handed |-> <<>>,
     cause |-> "none", followup |-> None]

\* Mutant: the first block is examined.
FirstIndex(blocks) == 1

\* promptResult.length - 1 (the blocks are numbered from 1 here)
LastIndex(blocks) == Len(blocks)

\* The question is typed (lines 200-216): first completion request.
AskSingleRound ==
    /\ pc = "menu"
    /\ nActions < MaxActions
    /\ \E prompt \in Prompts : messages' = <<PromptMessage(prompt)>>
    /\ promptResult' = None
    /\ qlog' = [SingleRoundQuestion EXCEPT !.handed = messages']
    /\ pc' = "callAI"
    /\ nActions' = nActions + 1
    /\ recv' = None
    /\ UNCHANGED <<lastId, serverInfo, capabilities, tools, resources, toServer, toClient,
                   pending, toolCallHistory, toolCallRepeatCount, lastToolCallSignature,
                   finalAnswerGiven, results, callIdx, peer, sent>>

\* The first completion request settles (lines 216-239): the response is
\* pushed as the assistant message and its text blocks are printed; when its
\* last block is a tool_use block, that block's tools/call is written.
FirstResponse ==
    /\ pc = "callAI"
    /\ \E outcome \in ContentOutcomes(1) :
        CASE outcome.kind = "throw" ->
                  /\ Crash
                  /\ qlog' = [qlog EXCEPT !.phase = "failed", !.cause = "callAI"]
                  /\ UNCHANGED <<messages, promptResult, toServer, lastId>>
          [] outcome.kind = "undefined" ->
                  \* for (const tool of undefined) throws
                  /\ promptResult' = Some(outcome)
                  /\ messages' = Push(messages, AssistantMessage(outcome))
                  /\ Crash
                  /\ qlog' = [qlog EXCEPT !.phase = "failed", !.cause = "undefined"]
                  /\ UNCHANGED <<toServer, lastId>>
          [] outcome.kind = "content" ->
                  LET blocks == outcome.blocks
                  IN /\ promptResult' = Some(outcome)
                     /\ messages' = Push(messages, AssistantMessage(outcome))
                     /\ IF blocks = <<>>
                        THEN \* .type of promptResult[-1], undefined, throws
                             /\ Crash
                             /\ qlog' = [qlog EXCEPT !.phase = "failed", !.cause = "empty"]
                             /\ UNCHANGED <<toServer, lastId>>
                        ELSE IF blocks[LastIndex(blocks)].type = "tool_use"
                        THEN LET toolUse == blocks[LastIndex(blocks)]
                                 req == Request("tools/call",
                                                ToolCallParams(toolUse.name, toolUse.input),
                                                lastId, FALSE)
                             IN /\ toServer' = Append(toServer, req)
                                /\ pending' = Some(req)
                                /\ lastId' = NextId(lastId, FALSE)
                                /\ pc' = "ai_tool"
                                /\ qlog' = [qlog EXCEPT !.issued =
                                              Append(@, [id |-> toolUse.id, request |-> req])]
                        ELSE /\ pc' = "menu"
                             /\ qlog' = [qlog EXCEPT !.phase = "answered"]
                             /\ UNCHANGED <<toServer, lastId, pending>>
    /\ UNCHANGED <<serverInfo, capabilities, tools, resources, toClient, toolCallHistory,
                   toolCallRepeatCount, lastToolCallSignature, finalAnswerGiven, results,
                   callIdx, peer, nActions, sent, recv>>

\* The tools/call settles (lines 236-252): its first content text is pushed as
\* the tool_result message and the follow-up completion request is made.
RecvToolUseResult ==
    /\ pc = "ai_tool"
    /\ toClient # <<>>
    /\ LET line == Head(toClient)
           blocks == Get(promptResult).blocks
           toolUse == blocks[LastIndex(blocks)]
       IN /\ Read(line)
          /\ IF \/ ParseThrows(line)
                \/ SendResult(line) = None                   \* destructuring undefined
                \/ Get(SendResult(line)).content = None      \* content[0] of undefined
                \/ Get(Get(SendResult(line)).content) = <<>> \* .text of undefined
             THEN /\ Crash
                  /\ qlog' = [qlog EXCEPT !.phase = "failed", !.cause = "tool"]
                  /\ UNCHANGED messages
             ELSE LET content == Get(Get(SendResult(line)).content)
                  IN /\ messages' = Push(messages,
                                         ToolResultUserMessage(toolUse.id, content[1].text))
                     /\ pc' = "followup"
                     /\ pending' = None
                     /\ qlog' = [qlog EXCEPT !.completions = @ + 1, !.handed = messages']
    /\ UNCHANGED <<lastId, serverInfo, capabilities, tools, resources, toServer,
                   toolCallHistory, toolCallRepeatCount, lastToolCallSignature,
                   finalAnswerGiven, promptResult, results, callIdx, peer, nActions, sent>>

\* The follow-up completion request settles (lines 252-259): its text blocks
\* are printed and the branch ends, whatever blocks it holds.
FollowupResponse ==
    /\ pc = "followup"
    /\ \E outcome \in ContentOutcomes(2) :
        CASE outcome.kind = "throw" ->
                  /\ Crash
                  /\ qlog' = [qlog EXCEPT !.phase = "failed", !.cause = "callAI"]
          [] outcome.kind = "undefined" ->
                  \* for (const tool of undefined) throws
                  /\ Crash
                  /\ qlog' = [qlog EXCEPT !.phase = "failed", !.cause = "undefined"]
          [] outcome.kind = "content" ->
                  /\ pc' = "menu"
                  /\ qlog' = [qlog EXCEPT !.phase = "answered",
                                          !.followup = Some(outcome.blocks)]
                  /\ UNCHANGED pending
    /\ UNCHANGED <<lastId, serverInfo, capabilities, tools, resources, toServer, toClient,
                   messages, toolCallHistory, toolCallRepeatCount, lastToolCallSignature,
                   finalAnswerGiven, promptResult, results, callIdx, peer, nActions, sent,
                   recv>>

NextSingleRound ==
    \/ Start
    \/ RecvInitialize
    \/ RecvToolsList
    \/ RecvResourcesList
    \/ Cancel
    \/ RunTool
    \/ RecvTool
    \/ GetResource
    \/ RecvResource
    \/ AskSingleRound
    \/ FirstResponse
    \/ RecvToolUseResult
    \/ FollowupResponse
    \/ ServerStep
    \/ StubStep
    \/ DropLine

SingleRoundSpec == Init /\ [][NextSingleRound]_vars

\* The blocks of the first response of the question, once it has arrived.
FirstBlocks == Get(promptResult).blocks

\* The first response has arrived as a block list.
FirstArrived == promptResult # None /\ Get(promptResult).kind = "content"

HasToolUse(blocks) == \E i \in 1..Len(blocks) : blocks[i].type = "tool_use"

\* C23. Single-round variant (client.ts): a question issues at most one
\* tools/call and at most two completion requests; a tools/call is issued if
\* and only if the last block of the first response is a tool_use block, and
\* it is the call of that block, whatever the blocks before it; a follow-up
\* completion request is made only after that tools/call; and once the
\* follow-up response is there the question is over and the menu is back,
\* also when the response holds a tool_use block.
C23_SingleRound ==
    qlog.phase # "idle" =>
        /\ Len(qlog.issued) <= 1
        /\ qlog.completions \in 1..2
        /\ ~FirstArrived => qlog.issued = <<>>
        /\ FirstArrived =>
              /\ Len(qlog.issued) = 1 <=>
                    /\ FirstBlocks # <<>>
                    /\ FirstBlocks[Len(FirstBlocks)].type = "tool_use"
              /\ Len(qlog.issued) = 1 =>
                    LET last == FirstBlocks[Len(FirstBlocks)]
                    IN /\ qlog.issued[1].id = last.id
                       /\ qlog.issued[1].request.method = "tools/call"
                       /\ qlog.issued[1].request.params =
                              ToolCallParams(last.name, last.input)
        /\ qlog.completions = 2 => Len(qlog.issued) = 1
        /\ qlog.followup # None =>
              /\ pc = "menu"
              /\ pending = None
              /\ qlog.completions = 2
              /\ toServer = <<>>

\* C23 witness: the first response held two tool_use blocks, only the call of
\* the last one was issued, and the follow-up response, which holds a further
\* tool_use block, ended the question.
C23_Witness ==
    /\ qlog.phase = "answered"
    /\ FirstArrived
    /\ Len(FirstBlocks) = 2
    /\ FirstBlocks[1].type = "tool_use"
    /\ FirstBlocks[2].type = "tool_use"
    /\ Len(qlog.issued) = 1
    /\ qlog.issued[1].id = FirstBlocks[2].id
    /\ qlog.followup # None
    /\ HasToolUse(Get(qlog.followup))
    /\ pc = "menu"

====
